---- MODULE Spec2Model ----
(***************************************************************************)
(* A model of pkg/clusterconfig/clusterconfig.go: the resolution of the    *)
(* image registry's storage configuration from the cluster's install       *)
(* ConfigMap and from one of two credential Secrets.                       *)
(*                                                                         *)
(* One invocation of GetInstallConfig, GetAWSConfig or GetGCSConfig runs   *)
(* against a cluster whose system secret may be created, changed, deleted  *)
(* or made unreadable while the invocation is in flight.  The steps of an  *)
(* invocation between two cluster reads are atomic; the cluster reads are  *)
(* the points where the environment interleaves.  A nullable Go pointer is *)
(* a sequence of length 0 (nil) or 1.  Time is counted in seconds from the *)
(* start of wait.PollImmediate and advances only while the poll waits: a   *)
(* lookup takes no time.                                                   *)
(***************************************************************************)
EXTENDS Naturals, Sequences, FiniteSets, TLC

\* ------------------------------------------------------------ constants

StorageTypeAzure == "azure"
StorageTypeGCS == "gcs"
StorageTypeS3 == "s3"

installerConfigNamespace == "kube-system"
installerConfigName == "cluster-config-v1"
cloudCredentialsName == "installer-cloud-credentials"

\* pkg/apis/imageregistry/v1, imported at line 17.
ImageRegistryOperatorNamespace == "openshift-image-registry"
ImageRegistryPrivateConfigurationUser == "image-registry-private-configuration-user"

\* wait.PollImmediate(1*time.Second, 5*time.Minute, ...), in seconds.
PollInterval == 1
PollTimeout == 300

UserAccessKey == "REGISTRY_STORAGE_S3_ACCESSKEY"
UserSecretKey == "REGISTRY_STORAGE_S3_SECRETKEY"
SystemAccessKey == "aws_access_key_id"
SystemSecretKey == "aws_secret_access_key"

\* ---------------------------------------------------------- the inputs

\* The values a key of a secret may hold.  The code copies a value and never
\* inspects it (string(v)): two values, one of them empty, tell every
\* field of the result from every other and from a field left unset.
Values == {"", "AKIAIOSFODNN7"}

\* The number of regions an install config may name.
NumRegions == 1

RegionName(i) == IF i = 1 THEN "us-east-1" ELSE IF i = 2 THEN "eu-west-1" ELSE "ap-south-1"

Regions == {RegionName(i) : i \in 1..NumRegions}

Nil == <<>>

Ptr(x) == <<x>>

Deref(p) == p[1]

\* installer.InstallConfig, reduced to its Platform: the AWS block is a
\* pointer, nil on every platform but AWS.
InstallConfigs ==
    {[Platform |-> [Type |-> "aws", AWS |-> Ptr([Region |-> r])]] : r \in Regions}
        \cup {[Platform |-> [Type |-> "gcp", AWS |-> Nil]]}

\* The text of the install-config field: a document that decodes to an
\* install config, or text that does not decode.
Payloads == [wellFormed : BOOLEAN, doc : InstallConfigs]

EmptyPayload ==
    [wellFormed |-> FALSE, doc |-> [Platform |-> [Type |-> "gcp", AWS |-> Nil]]]

\* The Data of a secret: a map from some of the keys to values.
SecretDatas(keys) == UNION {[S -> Values] : S \in SUBSET keys}

\* What the API server holds under a name: nothing ("absent"), an object
\* ("present"), or an object it refuses to serve ("error": any failure of
\* the Get but not-found).
Stored(datas) ==
    {[state |-> "absent", data |-> <<>>], [state |-> "error", data |-> <<>>]}
        \cup {[state |-> "present", data |-> d] : d \in datas}

ConfigMapStates ==
    {[state |-> "absent", data |-> <<>>], [state |-> "error", data |-> <<>>]}
        \cup {[state |-> "present", data |-> <<>>]}
        \cup {[state |-> "present", data |-> [k \in {"install-config"} |-> p]] :
                p \in Payloads}

UserSecretStates == Stored(SecretDatas({UserAccessKey, UserSecretKey}))

SystemSecretStates == Stored(SecretDatas({SystemAccessKey, SystemSecretKey}))

\* ------------------------------------------------------------ the state

VARIABLES
    configMap,      \* kube-system/cluster-config-v1 in the cluster
    userSecret,     \* the user-defined secret in the cluster
    systemSecret,   \* installer-cloud-credentials in the cluster
    fn,             \* the function invoked
    pc,             \* where the invocation stands
    now,            \* seconds since wait.PollImmediate was entered
    cfg,            \* GetAWSConfig's cfg, a *Config
    sec,            \* GetAWSConfig's sec, the secret last obtained
    installConfig,  \* the decoded install config, a *InstallConfig
    ret,            \* what the invocation returned
    reads,          \* the cluster reads issued so far, by kind
    other,          \* the locals of a second, concurrent invocation
    self            \* which of the two invocations the locals above are of

vars ==
    <<configMap, userSecret, systemSecret, fn, pc, now, cfg, sec,
      installConfig, ret, reads, other, self>>

cluster == <<configMap, userSecret, systemSecret>>

\* The second invocation: the functions keep no package-level state, so all
\* an invocation has is its locals.
twin == <<other, self>>

\* ------------------------------------------------------ the Go structs

ZeroAzure == [AccountName |-> "", AccountKey |-> "", Container |-> ""]

ZeroGCS == [Bucket |-> "", KeyfileData |-> ""]

ZeroS3 == [AccessKey |-> "", SecretKey |-> "", Bucket |-> "", Region |-> ""]

ZeroStorage == [Type |-> "", Azure |-> ZeroAzure, GCS |-> ZeroGCS, S3 |-> ZeroS3]

\* &Config{}
ZeroConfig == [Storage |-> ZeroStorage]

\* ----------------------------------------------------------- the errors

NoSecret == <<"", "">>

NewError(kind, secret, key) == Ptr([kind |-> kind, secret |-> secret, key |-> key])

ErrClient == NewError("client", NoSecret, "")

ErrReadInstallConfig == NewError("unable to read cluster install configuration", NoSecret, "")

ErrDecodeInstallConfig == NewError("unable to decode cluster install configuration", NoSecret, "")

\* wait.ErrWaitTimeout
ErrWaitTimeout == NewError("timed out waiting for the condition", NoSecret, "")

\* An error of the API server: not-found, or any other failure of a Get.
ErrNotFound(ns, name) == NewError("not found", <<ns, name>>, "")

ErrAPI(ns, name) == NewError("api", <<ns, name>>, "")

ErrGetSecret(ns, name) == NewError("unable to get secret", <<ns, name>>, "")

ErrMissingKey(ns, name, key) ==
    NewError("does not contain required key", <<ns, name>>, key)

IsNotFound(err) == err # Nil /\ Deref(err).kind = "not found"

\* -------------------------------------------------------- cluster reads

\* client.<Kind>(ns).Get(name): the object as stored, under the namespace
\* and name asked for, or the API server's error.
Get(stored, ns, name) ==
    CASE stored.state = "present" ->
           [obj |-> Ptr([Namespace |-> ns, Name |-> name, Data |-> stored.data]),
            err |-> Nil]
      [] stored.state = "absent" -> [obj |-> Nil, err |-> ErrNotFound(ns, name)]
      [] OTHER -> [obj |-> Nil, err |-> ErrAPI(ns, name)]

\* v, ok := m[key]
HasKey(m, key) == key \in DOMAIN m

\* m[key] with Go's zero value for an absent key.
Lookup(m, key, zero) == IF HasKey(m, key) THEN m[key] ELSE zero

\* yaml.NewYAMLOrJSONDecoder(...).Decode(installConfig)
Decode(payload) ==
    IF payload.wellFormed
        THEN [installConfig |-> Ptr(payload.doc), err |-> Nil]
        ELSE [installConfig |-> Nil, err |-> ErrDecodeInstallConfig]

NoReads == [configMap |-> 0, user |-> 0, poll |-> 0, refetch |-> 0]

Count(kind) == [reads EXCEPT ![kind] = @ + 1]

TypeOK ==
    /\ configMap \in ConfigMapStates
    /\ userSecret \in UserSecretStates
    /\ systemSecret \in SystemSecretStates
    /\ fn \in {"", "GetInstallConfig", "GetAWSConfig", "GetGCSConfig"}
    /\ pc \in {"idle", "installConfig", "readConfigMap", "userSecret",
               "pollImmediate", "pollWait", "refetch", "done"}
    /\ now \in 0..PollTimeout
    /\ self \in {1, 2}

\* The locals of an invocation that has not been called yet.
NotCalled ==
    [fn |-> "", pc |-> "idle", now |-> 0, cfg |-> Nil, sec |-> Nil,
     installConfig |-> Nil,
     ret |-> [cfg |-> Nil, installConfig |-> Nil, err |-> Nil],
     reads |-> NoReads]

Init ==
    /\ configMap \in ConfigMapStates
    /\ userSecret \in UserSecretStates
    /\ systemSecret \in SystemSecretStates
    /\ fn = ""
    /\ pc = "idle"
    /\ now = 0
    /\ cfg = Nil
    /\ sec = Nil
    /\ installConfig = Nil
    /\ ret = [cfg |-> Nil, installConfig |-> Nil, err |-> Nil]
    /\ reads = NoReads
    /\ other = NotCalled
    /\ self = 1

\* return cfg, err
Return(c, ic, err) ==
    /\ pc' = "done"
    /\ ret' = [cfg |-> c, installConfig |-> ic, err |-> err]

\* ------------------------------------------------------ GetInstallConfig

\* ReadInstallConfig that goes on with whatever was decoded when the
\* decoding fails.
ReadInstallConfigLenient(stored) ==
    LET got == Get(stored, installerConfigNamespace, installerConfigName) IN
    IF got.err # Nil
        THEN [installConfig |-> Nil, err |-> ErrReadInstallConfig]
        ELSE [installConfig |->
                  Ptr(Lookup(Deref(got.obj).Data, "install-config", EmptyPayload).doc),
              err |-> Nil]

\* Lines 85-95: the ConfigMap read and the decoding of its install-config
\* field.
ReadInstallConfig(stored) ==
    LET got == Get(stored, installerConfigNamespace, installerConfigName) IN
    IF got.err # Nil
        THEN [installConfig |-> Nil, err |-> ErrReadInstallConfig]
        ELSE Decode(Lookup(Deref(got.obj).Data, "install-config", EmptyPayload))

\* SetPlatform that falls back to a default region without an AWS block.
SetPlatformDefaultRegion(c, ic) ==
    [c EXCEPT !.Storage.Type = StorageTypeS3,
              !.Storage.S3.Region = IF ic.Platform.AWS # Nil
                                       THEN Deref(ic.Platform.AWS).Region
                                       ELSE RegionName(1)]

\* SetPlatform that sets the storage type only with an AWS block.
SetPlatformOnlyAWS(c, ic) ==
    IF ic.Platform.AWS # Nil
        THEN [c EXCEPT !.Storage.Type = StorageTypeS3,
                       !.Storage.S3.Region = Deref(ic.Platform.AWS).Region]
        ELSE c

\* Lines 110-113: the storage type and, with an AWS block, its region.
SetPlatform(c, ic) ==
    LET typed == [c EXCEPT !.Storage.Type = StorageTypeS3] IN
    IF ic.Platform.AWS # Nil
        THEN [typed EXCEPT !.Storage.S3.Region = Deref(ic.Platform.AWS).Region]
        ELSE typed

\* GetInstallConfig called by itself: GetCoreClient, lines 80-83.
GetInstallConfigCall ==
    /\ pc = "idle"
    /\ fn' = "GetInstallConfig"
    /\ \E clientOK \in BOOLEAN :
         IF clientOK
            THEN pc' = "readConfigMap" /\ ret' = ret
            ELSE Return(Nil, Nil, ErrClient)
    /\ UNCHANGED <<twin, cluster, now, cfg, sec, installConfig, reads>>

\* GetInstallConfig called by GetAWSConfig (line 105): GetCoreClient again.
GetInstallConfigClient ==
    /\ pc = "installConfig"
    /\ \E clientOK \in BOOLEAN :
         IF clientOK
            THEN pc' = "readConfigMap" /\ ret' = ret
            ELSE Return(Nil, Nil, ErrClient)
    /\ UNCHANGED <<twin, cluster, fn, now, cfg, sec, installConfig, reads>>

\* Lines 85-95, and in GetAWSConfig lines 106-113 on its return.
GetInstallConfigRead ==
    /\ pc = "readConfigMap"
    /\ reads' = Count("configMap")
    /\ LET r == ReadInstallConfig(configMap) IN
         /\ installConfig' = r.installConfig
         /\ IF r.err # Nil
               THEN Return(Nil, Nil, r.err) /\ cfg' = cfg
               ELSE IF fn = "GetInstallConfig"
                       THEN Return(Nil, r.installConfig, Nil) /\ cfg' = cfg
                       ELSE /\ cfg' = Ptr(SetPlatform(Deref(cfg), Deref(r.installConfig)))
                            /\ pc' = "userSecret"
                            /\ ret' = ret
    /\ UNCHANGED <<twin, cluster, fn, now, sec>>

\* ---------------------------------------------------------- GetAWSConfig

\* Lines 99-103: GetCoreClient and cfg := &Config{}.
GetAWSConfigCall ==
    /\ pc = "idle"
    /\ fn' = "GetAWSConfig"
    /\ \E clientOK \in BOOLEAN :
         IF clientOK
            THEN pc' = "installConfig" /\ cfg' = Ptr(ZeroConfig) /\ ret' = ret
            ELSE Return(Nil, Nil, ErrClient) /\ cfg' = cfg
    /\ UNCHANGED <<twin, cluster, now, sec, installConfig, reads>>

\* ExtractKeys that returns the config filled so far together with the
\* error of a missing key.
ExtractKeysKeepsConfig(c, s, accessKey, secretKey, errNS, errName) ==
    IF ~HasKey(s.Data, accessKey)
        THEN [cfg |-> Ptr(c), err |-> ErrMissingKey(errNS, errName, accessKey)]
    ELSE IF ~HasKey(s.Data, secretKey)
        THEN [cfg |-> Ptr([c EXCEPT !.Storage.S3.AccessKey = s.Data[accessKey]]),
              err |-> ErrMissingKey(errNS, errName, secretKey)]
    ELSE [cfg |-> Ptr([c EXCEPT !.Storage.S3.AccessKey = s.Data[accessKey],
                                !.Storage.S3.SecretKey = s.Data[secretKey]]),
          err |-> Nil]

\* ExtractKeys with the two keys read from each other's place.
ExtractKeysSwapped(c, s, accessKey, secretKey, errNS, errName) ==
    IF ~HasKey(s.Data, accessKey)
        THEN [cfg |-> Nil, err |-> ErrMissingKey(errNS, errName, accessKey)]
    ELSE IF ~HasKey(s.Data, secretKey)
        THEN [cfg |-> Nil, err |-> ErrMissingKey(errNS, errName, secretKey)]
    ELSE [cfg |-> Ptr([c EXCEPT !.Storage.S3.AccessKey = s.Data[secretKey],
                                !.Storage.S3.SecretKey = s.Data[accessKey]]),
          err |-> Nil]

\* ExtractKeys that leaves SecretKey at its zero value when its key is
\* missing, instead of failing.
ExtractKeysPartial(c, s, accessKey, secretKey, errNS, errName) ==
    IF ~HasKey(s.Data, accessKey)
        THEN [cfg |-> Nil, err |-> ErrMissingKey(errNS, errName, accessKey)]
    ELSE [cfg |-> Ptr([c EXCEPT !.Storage.S3.AccessKey = s.Data[accessKey],
                                !.Storage.S3.SecretKey = Lookup(s.Data, secretKey, "")]),
          err |-> Nil]

\* Lines 138-147 and 151-161: both keys of the secret into cfg, or the
\* error that names the first key missing; errNS/errName are the names the
\* code puts in that error.
ExtractKeys(c, s, accessKey, secretKey, errNS, errName) ==
    IF ~HasKey(s.Data, accessKey)
        THEN [cfg |-> Nil, err |-> ErrMissingKey(errNS, errName, accessKey)]
    ELSE IF ~HasKey(s.Data, secretKey)
        THEN [cfg |-> Nil, err |-> ErrMissingKey(errNS, errName, secretKey)]
    ELSE [cfg |-> Ptr([c EXCEPT !.Storage.S3.AccessKey = s.Data[accessKey],
                                !.Storage.S3.SecretKey = s.Data[secretKey]]),
          err |-> Nil]

\* UserBranch that takes a refused Get for a missing secret.
UserBranchErrorIsNotFound(err) ==
    IF err # Nil THEN "fallback" ELSE "user"

\* UserBranch that falls back to the system secret on any error.
UserBranchAnyError(err) == IF err # Nil THEN "fallback" ELSE "user"

\* The branch taken on the result of the user-defined secret's Get (lines
\* 117, 148, 150).
UserBranch(err) ==
    IF err # Nil /\ IsNotFound(err) THEN "fallback"
    ELSE IF err # Nil THEN "fail"
    ELSE "user"

\* Lines 116-117 and 148-164: the user-defined secret.
GetUserSecret ==
    /\ pc = "userSecret"
    /\ reads' = Count("user")
    /\ LET got == Get(userSecret, ImageRegistryOperatorNamespace,
                      ImageRegistryPrivateConfigurationUser)
           branch == UserBranch(got.err)
       IN
         /\ sec' = got.obj
         /\ CASE branch = "fallback" ->
                   pc' = "pollImmediate" /\ now' = 0 /\ UNCHANGED <<cfg, ret>>
              [] branch = "fail" ->
                   Return(Nil, Nil, got.err) /\ UNCHANGED <<cfg, now>>
              [] OTHER ->
                   LET x == ExtractKeys(Deref(cfg), Deref(got.obj),
                                        UserAccessKey, UserSecretKey,
                                        ImageRegistryOperatorNamespace,
                                        ImageRegistryPrivateConfigurationUser)
                   IN  Return(x.cfg, Nil, x.err) /\ UNCHANGED <<cfg, now>>
    /\ UNCHANGED <<twin, cluster, fn, installConfig>>

\* Condition that takes every error of the Get for "not yet".
ConditionSwallowsErrors(got) ==
    IF got.err # Nil
        THEN [stop |-> FALSE, err |-> Nil]
        ELSE [stop |-> TRUE, err |-> Nil]

\* The poll's condition function, lines 120-128, on the result of its Get:
\* not-found is "not yet", any other error ends the poll.
Condition(got) ==
    IF got.err # Nil
        THEN IF IsNotFound(got.err)
                THEN [stop |-> FALSE, err |-> Nil]
                ELSE [stop |-> FALSE, err |-> got.err]
        ELSE [stop |-> TRUE, err |-> Nil]

\* Attempt that does not call the condition once the channel is closed: the
\* timeout ends the poll without a last look.
AttemptNoLastLook(t, open) ==
    /\ now' = t
    /\ IF ~open
          THEN Return(Nil, Nil, ErrWaitTimeout) /\ UNCHANGED <<sec, reads>>
          ELSE /\ reads' = Count("poll")
               /\ LET got == Get(systemSecret, ImageRegistryOperatorNamespace,
                                 cloudCredentialsName)
                      c == [stop |-> got.err = Nil,
                            err |-> IF got.err # Nil /\ ~IsNotFound(got.err)
                                       THEN got.err ELSE Nil]
                  IN
                    /\ sec' = got.obj
                    /\ IF c.err # Nil THEN Return(Nil, Nil, c.err)
                       ELSE IF c.stop THEN pc' = "refetch" /\ ret' = ret
                       ELSE pc' = "pollWait" /\ ret' = ret
    /\ UNCHANGED <<twin, cluster, fn, cfg, installConfig>>

\* wait.PollImmediate (k8s.io/apimachinery/pkg/util/wait) calls the
\* condition at once, then on every tick of a ticker of PollInterval, and
\* once more when its timer of PollTimeout closes the poller's channel.
\* One attempt of wait.PollImmediate at time t: the condition is called; an
\* error of the condition is returned by GetAWSConfig (lines 130-132), a
\* true condition ends the poll, and a false one waits for the next tick
\* while the poller's channel is open and is wait.ErrWaitTimeout once it
\* is closed.
Attempt(t, open) ==
    /\ reads' = Count("poll")
    /\ now' = t
    /\ LET got == Get(systemSecret, ImageRegistryOperatorNamespace, cloudCredentialsName)
           c == Condition(got)
       IN
         /\ sec' = got.obj
         /\ IF c.err # Nil THEN Return(Nil, Nil, c.err)
            ELSE IF c.stop THEN pc' = "refetch" /\ ret' = ret
            ELSE IF open THEN pc' = "pollWait" /\ ret' = ret
            ELSE Return(Nil, Nil, ErrWaitTimeout)
    /\ UNCHANGED <<twin, cluster, fn, cfg, installConfig>>

\* The first attempt made after one interval, as wait.Poll makes it.
FirstAttemptAfterInterval == PollInterval

\* The time of the first attempt: wait.PollImmediate calls the condition
\* before it waits.
FirstAttemptAt == 0

\* wait.PollImmediate, line 119: the attempt made at once.
PollImmediate ==
    /\ pc = "pollImmediate"
    /\ Attempt(FirstAttemptAt, TRUE)

\* The poller's ticker fires, every PollInterval up to PollTimeout, and the
\* condition is called again.
PollTick ==
    /\ pc = "pollWait"
    /\ now + PollInterval <= PollTimeout
    /\ Attempt(now + PollInterval, TRUE)

\* A timer that never fires: a timeout of 0 is no timeout to the poller.
TimerDueNever(t) == FALSE

\* A timer that is due ten intervals early.
TimerDueEarly(t) == t + 10 * PollInterval >= PollTimeout

\* When the poller's timer is due: at PollTimeout.  A tick due at the same
\* instant may be delivered before it or not at all.
TimerDue(t) == t + PollInterval >= PollTimeout

\* The poller's timer fires and closes the channel: the condition is
\* called one last time.
PollExpire ==
    /\ pc = "pollWait"
    /\ TimerDue(now)
    /\ Attempt(PollTimeout, FALSE)

\* Refetch that takes the keys from the secret the poll obtained, without a
\* second Get.
RefetchUsesPolled ==
    /\ pc = "refetch"
    /\ reads' = Count("refetch")
    /\ sec' = sec
    /\ LET x == ExtractKeys(Deref(cfg), Deref(sec),
                            SystemAccessKey, SystemSecretKey,
                            installerConfigNamespace, cloudCredentialsName)
       IN  Return(x.cfg, Nil, x.err)
    /\ UNCHANGED <<twin, cluster, fn, now, cfg, installConfig>>

\* Refetch that takes the system secret out of the cluster as it reads it.
RefetchConsumes ==
    /\ pc = "refetch"
    /\ reads' = Count("refetch")
    /\ systemSecret' = [state |-> "absent", data |-> <<>>]
    /\ LET got == Get(systemSecret, ImageRegistryOperatorNamespace, cloudCredentialsName) IN
         /\ sec' = got.obj
         /\ IF got.err # Nil
               THEN Return(Nil, Nil, ErrGetSecret(installerConfigNamespace, cloudCredentialsName))
               ELSE LET x == ExtractKeys(Deref(cfg), Deref(got.obj),
                                         SystemAccessKey, SystemSecretKey,
                                         installerConfigNamespace, cloudCredentialsName)
                    IN  Return(x.cfg, Nil, x.err)
    /\ UNCHANGED <<twin, configMap, userSecret, fn, now, cfg, installConfig>>

\* Lines 134-147: the system secret read again, and its two keys.  The
\* errors name installerConfigNamespace.
Refetch ==
    /\ pc = "refetch"
    /\ reads' = Count("refetch")
    /\ LET got == Get(systemSecret, ImageRegistryOperatorNamespace, cloudCredentialsName) IN
         /\ sec' = got.obj
         /\ IF got.err # Nil
               THEN Return(Nil, Nil, ErrGetSecret(installerConfigNamespace, cloudCredentialsName))
               ELSE LET x == ExtractKeys(Deref(cfg), Deref(got.obj),
                                         SystemAccessKey, SystemSecretKey,
                                         installerConfigNamespace, cloudCredentialsName)
                    IN  Return(x.cfg, Nil, x.err)
    /\ UNCHANGED <<twin, cluster, fn, now, cfg, installConfig>>

\* ---------------------------------------------------------- GetGCSConfig

\* GCSConfig with a bucket filled in.
GCSConfigWithBucket ==
    [ZeroConfig EXCEPT !.Storage.Type = StorageTypeGCS, !.Storage.GCS.Bucket = "registry"]

\* Lines 168-169.
GCSConfig == [ZeroConfig EXCEPT !.Storage.Type = StorageTypeGCS]

\* Lines 167-171.
GetGCSConfig ==
    /\ pc = "idle"
    /\ fn' = "GetGCSConfig"
    /\ Return(Ptr(GCSConfig), Nil, Nil)
    /\ UNCHANGED <<twin, cluster, now, cfg, sec, installConfig, reads>>

\* ------------------------------------------------------ the environment

\* The installer, or anyone else, creates, changes or deletes the system
\* secret, or the API server starts or stops refusing to serve it, while
\* GetAWSConfig waits for it.  (A change at any other moment is a different
\* initial state; the ConfigMap and the user-defined secret are read at
\* most once.)
SystemSecretChanges ==
    /\ pc \in {"pollImmediate", "pollWait", "refetch"}
    /\ systemSecret' \in SystemSecretStates \ {systemSecret}
    /\ UNCHANGED <<twin, configMap, userSecret, fn, pc, now, cfg, sec, installConfig,
                   ret, reads>>

\* ------------------------------------------------- a second invocation

\* The goroutine of the other invocation is scheduled: its locals become the
\* current ones.  Nothing passes from one invocation to the other.
Switch ==
    /\ fn' = other.fn
    /\ pc' = other.pc
    /\ now' = other.now
    /\ cfg' = other.cfg
    /\ sec' = other.sec
    /\ installConfig' = other.installConfig
    /\ ret' = other.ret
    /\ reads' = other.reads
    /\ other' = [fn |-> fn, pc |-> pc, now |-> now, cfg |-> cfg, sec |-> sec,
                 installConfig |-> installConfig, ret |-> ret, reads |-> reads]
    /\ self' = 3 - self
    /\ UNCHANGED cluster

\* ------------------------------------------------------ specifications

Step ==
    \/ GetInstallConfigCall
    \/ GetInstallConfigClient
    \/ GetInstallConfigRead
    \/ GetAWSConfigCall
    \/ GetUserSecret
    \/ PollImmediate
    \/ PollTick
    \/ PollExpire
    \/ Refetch
    \/ GetGCSConfig

Next == Step \/ SystemSecretChanges

Spec == Init /\ [][Next]_vars

\* An invocation that can take a step takes one: the goroutine runs, every
\* cluster read returns, and the poller's ticker and timer fire.
FairSpec == Spec /\ WF_vars(Step)

\* Two invocations, interleaved at every step, against a cluster that
\* nothing but they could change.
TwoNext == Step \/ Switch

TwoSpec == Init /\ [][TwoNext]_vars

\* ------------------------------------------------------------ the claims

Done == pc = "done"

Succeeded == Done /\ ret.err = Nil /\ ret.cfg # Nil

Failed == Done /\ ret.err # Nil

S3Of(r) == Deref(r.cfg).Storage.S3

BothKeys(stored, accessKey, secretKey) ==
    /\ stored.state = "present"
    /\ HasKey(stored.data, accessKey)
    /\ HasKey(stored.data, secretKey)

\* C1: when GetAWSConfig has decoded an install config whose AWS block has
\* region R and its lookup of the user-defined secret found both
\* REGISTRY_STORAGE_S3_ACCESSKEY and REGISTRY_STORAGE_S3_SECRETKEY, it
\* returns no error and a config of type s3 whose access key and secret key
\* are the values of those two keys and whose region is R.
C1_UserSecretPath ==
    (/\ Done
     /\ fn = "GetAWSConfig"
     /\ installConfig # Nil
     /\ reads.user = 1
     /\ BothKeys(userSecret, UserAccessKey, UserSecretKey))
    => /\ Succeeded
       /\ Deref(ret.cfg).Storage.Type = StorageTypeS3
       /\ S3Of(ret).AccessKey = userSecret.data[UserAccessKey]
       /\ S3Of(ret).SecretKey = userSecret.data[UserSecretKey]
       /\ \A r \in Regions :
            Deref(installConfig).Platform.AWS = Ptr([Region |-> r])
                => S3Of(ret).Region = r

C1_Witness ==
    /\ Succeeded
    /\ fn = "GetAWSConfig"
    /\ reads.user = 1
    /\ BothKeys(userSecret, UserAccessKey, UserSecretKey)
    /\ userSecret.data[UserAccessKey] # userSecret.data[UserSecretKey]
    /\ Deref(installConfig).Platform.AWS # Nil
    /\ S3Of(ret).Region = Deref(Deref(installConfig).Platform.AWS).Region
    /\ S3Of(ret).Region \in Regions

Polling == pc \in {"pollImmediate", "pollWait"}

\* The system secrets that hold both required keys.
FullSystemSecrets ==
    {s \in SystemSecretStates : BothKeys(s, SystemAccessKey, SystemSecretKey)}

\* GetAWSConfig has returned success with the two values of system secret s.
ReturnedSystemKeys(s) ==
    /\ Succeeded
    /\ S3Of(ret).AccessKey = s.data[SystemAccessKey]
    /\ S3Of(ret).SecretKey = s.data[SystemSecretKey]

TimedOut == Done /\ ret.err = ErrWaitTimeout

\* C2: once the user-defined secret was not found, if the system secret
\* with both keys is there at a moment before the 5-minute ceiling and
\* stays, GetAWSConfig eventually returns success with its two values, and
\* never a timeout.
C2_PollDoesNotGiveUpEarly ==
    \A s \in FullSystemSecrets :
        []((Polling /\ now < PollTimeout /\ systemSecret = s /\ [](systemSecret = s))
              => (<>ReturnedSystemKeys(s) /\ []~TimedOut))

\* The secret appeared in the last interval before the ceiling, after every
\* tick had found nothing; the tick due at the ceiling was not delivered,
\* and the attempt of the timeout found the secret.
C2_Witness ==
    /\ BothKeys(systemSecret, SystemAccessKey, SystemSecretKey)
    /\ ReturnedSystemKeys(systemSecret)
    /\ systemSecret.data[SystemAccessKey] # systemSecret.data[SystemSecretKey]
    /\ reads.poll = (PollTimeout - 1) \div PollInterval + 2
    /\ now = PollTimeout

\* The number of attempts of a poll that times out: one at time 0, one at
\* every interval before the ceiling, the one of the timeout, and possibly
\* one for a tick due together with the timeout.
AttemptsBeforeCeiling == (PollTimeout - 1) \div PollInterval + 1

\* C3: when the user-defined secret was not found and the system secret is
\* never there, GetAWSConfig returns the timeout error and no config; a
\* timeout is returned only at the 5-minute ceiling, after an attempt at
\* time 0 and one every second: neither earlier nor never.
C3_PollCeiling ==
    /\ [](TimedOut =>
            /\ ret.cfg = Nil
            /\ now = PollTimeout
            /\ reads.poll \in {AttemptsBeforeCeiling + 1, AttemptsBeforeCeiling + 2}
            /\ reads.refetch = 0)
    /\ []((pc = "pollImmediate" /\ systemSecret.state = "absent"
              /\ [](systemSecret.state = "absent"))
            => <>TimedOut)

C3_Witness ==
    /\ TimedOut
    /\ userSecret.state = "absent"
    /\ systemSecret.state = "absent"
    /\ reads.poll = AttemptsBeforeCeiling + 1

\* C4: when the user-defined secret was not found and the system secret
\* with both keys is already there (and stays), the first attempt of the
\* poll is made at time 0, the poll ends after that one attempt, and
\* GetAWSConfig returns success with the system secret's two values.
C4_ImmediateFallback ==
    \A s \in FullSystemSecrets :
        []((pc = "pollImmediate" /\ systemSecret = s /\ [](systemSecret = s))
              => <>(ReturnedSystemKeys(s) /\ reads.poll = 1 /\ now = 0))

C4_Witness ==
    /\ BothKeys(systemSecret, SystemAccessKey, SystemSecretKey)
    /\ ReturnedSystemKeys(systemSecret)
    /\ systemSecret.data[SystemAccessKey] # systemSecret.data[SystemSecretKey]
    /\ userSecret.state = "absent"
    /\ reads.poll = 1
    /\ reads.refetch = 1
    /\ now = 0

\* The two keys GetAWSConfig requires of the secret of that name.
RequiredKeys(name) ==
    IF name = ImageRegistryPrivateConfigurationUser
        THEN <<UserAccessKey, UserSecretKey>>
        ELSE <<SystemAccessKey, SystemSecretKey>>

\* GetAWSConfig has returned after it obtained the secret it takes the keys
\* from: the user-defined one, or the system one read again after the poll.
\* (sec is nil after every Get that failed.)
ObtainedSecret == Done /\ fn = "GetAWSConfig" /\ sec # Nil

LacksKey(s) ==
    \E i \in 1..2 : ~HasKey(s.Data, RequiredKeys(s.Name)[i])

\* C5: whenever GetAWSConfig obtains a secret that lacks one of its two
\* required keys, it returns an error and no config, and the error names a
\* required key that is missing and the secret looked up: the namespace
\* and the name the Get that returned it was made with.
C5_MissingKeyNamed ==
    (ObtainedSecret /\ LacksKey(Deref(sec)))
    => /\ ret.cfg = Nil
       /\ ret.err # Nil
       /\ Deref(ret.err).kind = "does not contain required key"
       /\ \E i \in 1..2 :
            /\ Deref(ret.err).key = RequiredKeys(Deref(sec).Name)[i]
            /\ ~HasKey(Deref(sec).Data, Deref(ret.err).key)
       /\ Deref(ret.err).secret = <<Deref(sec).Namespace, Deref(sec).Name>>

\* C6: every successful return of GetAWSConfig holds an access key and a
\* secret key that are the values of the two required keys, both present,
\* of one secret: the one GetAWSConfig obtained last.
C6_NoPartialCredentials ==
    (Succeeded /\ fn = "GetAWSConfig")
    => /\ sec # Nil
       /\ Deref(sec).Name \in {ImageRegistryPrivateConfigurationUser, cloudCredentialsName}
       /\ LET k == RequiredKeys(Deref(sec).Name)
              d == Deref(sec).Data
          IN  /\ HasKey(d, k[1])
              /\ HasKey(d, k[2])
              /\ S3Of(ret).AccessKey = d[k[1]]
              /\ S3Of(ret).SecretKey = d[k[2]]

\* A success from the system secret whose two values differ, one of them
\* the empty string.
C6_Witness ==
    /\ Succeeded
    /\ fn = "GetAWSConfig"
    /\ sec # Nil
    /\ Deref(sec).Name = cloudCredentialsName
    /\ S3Of(ret).AccessKey # S3Of(ret).SecretKey
    /\ S3Of(ret).SecretKey = ""

\* The ConfigMap cannot be read, or its install-config field does not
\* decode.
InstallConfigUnreadable ==
    \/ configMap.state # "present"
    \/ ~HasKey(configMap.data, "install-config")
    \/ ~configMap.data["install-config"].wellFormed

SecretReads == reads.user + reads.poll + reads.refetch

\* C7: GetAWSConfig reads the ConfigMap at most once, and once before any
\* secret lookup; when that read or the decoding fails it returns an error
\* and no config after that one read, and no secret lookup is ever issued.
C7_InstallConfigFirst ==
    fn = "GetAWSConfig"
    => /\ reads.configMap <= 1
       /\ SecretReads > 0 => (reads.configMap = 1 /\ installConfig # Nil)
       /\ (InstallConfigUnreadable /\ reads.configMap = 1)
            => (Failed /\ ret.cfg = Nil /\ SecretReads = 0)
       /\ InstallConfigUnreadable => SecretReads = 0

\* The install-config field does not decode, and GetAWSConfig has failed
\* after its one read of the ConfigMap, with both secrets there to read.
C7_Witness ==
    /\ fn = "GetAWSConfig"
    /\ Failed
    /\ configMap.state = "present"
    /\ InstallConfigUnreadable
    /\ reads.configMap = 1
    /\ ret.err = ErrDecodeInstallConfig
    /\ userSecret.state = "present"
    /\ systemSecret.state = "present"

\* C8: GetGCSConfig always returns success with type gcs and every field of
\* the Azure, GCS and S3 blocks empty, and it reads nothing from the
\* cluster.
C8_GCSTagOnly ==
    (Done /\ fn = "GetGCSConfig")
    => /\ ret.err = Nil
       /\ ret.cfg # Nil
       /\ Deref(ret.cfg).Storage.Type = StorageTypeGCS
       /\ Deref(ret.cfg).Storage.Azure = ZeroAzure
       /\ Deref(ret.cfg).Storage.GCS = ZeroGCS
       /\ Deref(ret.cfg).Storage.S3 = ZeroS3
       /\ reads = NoReads

\* GetGCSConfig has returned in a cluster that holds an install config and
\* both secrets.
C8_Witness ==
    /\ Done
    /\ fn = "GetGCSConfig"
    /\ ~InstallConfigUnreadable
    /\ userSecret.state = "present"
    /\ systemSecret.state = "present"

\* The platform type of the cluster's install descriptor, "" without one.
DescriptorPlatform ==
    IF InstallConfigUnreadable
        THEN ""
        ELSE configMap.data["install-config"].doc.Platform.Type

C10_UserSecretPreferred ==
    /\ (reads.poll + reads.refetch > 0)
         => (reads.user = 1 /\ userSecret.state = "absent")
    /\ (Done /\ reads.user = 1 /\ userSecret.state = "present"
          /\ ~BothKeys(userSecret, UserAccessKey, UserSecretKey))
         => (Failed /\ ret.cfg = Nil /\ reads.poll + reads.refetch = 0)

\* The user-defined secret lacks a key and the system secret holds both:
\* GetAWSConfig has failed without reading the system secret.
C10_Witness ==
    /\ Failed
    /\ fn = "GetAWSConfig"
    /\ reads.user = 1
    /\ userSecret.state = "present"
    /\ ~BothKeys(userSecret, UserAccessKey, UserSecretKey)
    /\ BothKeys(systemSecret, SystemAccessKey, SystemSecretKey)
    /\ reads.poll + reads.refetch = 0

\* The error of a Get of the user-defined secret that the API server
\* refused.
UserSecretError ==
    ErrAPI(ImageRegistryOperatorNamespace, ImageRegistryPrivateConfigurationUser)

\* The error of a Get of the system secret that the API server refused.
SystemSecretError == ErrAPI(ImageRegistryOperatorNamespace, cloudCredentialsName)

\* C11: when the lookup of the user-defined secret fails with an error
\* other than not-found, GetAWSConfig returns that error and no config, and
\* never polls for or reads the system secret.
C11_UserSecretErrorFatal ==
    /\ (fn = "GetAWSConfig" /\ reads.user = 1 /\ userSecret.state = "error")
         => /\ Done
            /\ ret.cfg = Nil
            /\ ret.err = UserSecretError
            /\ reads.poll = 0
            /\ reads.refetch = 0
    /\ (Done /\ ret.err = UserSecretError) => userSecret.state = "error"

\* The user-defined secret cannot be read while the system secret holds
\* both keys: GetAWSConfig has returned the error of the Get.
C11_Witness ==
    /\ Done
    /\ fn = "GetAWSConfig"
    /\ reads.user = 1
    /\ userSecret.state = "error"
    /\ ret.err = UserSecretError
    /\ BothKeys(systemSecret, SystemAccessKey, SystemSecretKey)

\* A step that makes an attempt of the poll.
PollAttempt == reads'.poll = reads.poll + 1

\* C12: an attempt of the poll that finds the system secret not there
\* leads to the next attempt, one interval later (or, at the ceiling, to
\* the timeout); the first attempt that gets any other error ends the poll
\* at once: GetAWSConfig returns that error and no config, and makes no
\* further attempt and no re-fetch.
C12_PollAbortsOnError ==
    /\ [][PollAttempt =>
            /\ systemSecret.state = "error"
                 => /\ pc' = "done"
                    /\ ret' = [cfg |-> Nil, installConfig |-> Nil,
                               err |-> SystemSecretError]
                    /\ reads'.refetch = 0
            /\ systemSecret.state = "absent"
                 => \/ pc' = "pollWait" /\ ret' = ret
                    \/ /\ pc = "pollWait"
                       /\ now + PollInterval >= PollTimeout
                       /\ pc' = "done"
                       /\ ret'.err = ErrWaitTimeout
            /\ pc = "pollWait" => now' \in {now + PollInterval, PollTimeout}]_vars
    /\ [][pc = "done" => (pc' = "done" /\ reads' = reads /\ ret' = ret)]_vars
    /\ []((Done /\ ret.err = SystemSecretError)
            => (ret.cfg = Nil /\ reads.refetch = 0 /\ systemSecret.state = "error"))

\* Attempts found nothing, then one was refused: GetAWSConfig has returned
\* its error without a re-fetch.
C12_Witness ==
    /\ Done
    /\ ret.err = SystemSecretError
    /\ ret.cfg = Nil
    /\ reads.poll > 2
    /\ reads.refetch = 0

\* The step of the re-fetch: the read of line 134 and the return.
RefetchStep == pc = "refetch" /\ pc' = "done"

\* C14: in the fallback path the result is that of the read made after the
\* poll, whatever the poll's own read obtained.  A system secret deleted
\* (or refused) between the two makes GetAWSConfig return an error and no
\* config without another poll attempt; one changed in between gives the
\* keys, or the missing-key error, of the contents the re-fetch sees.
C14_RefetchDecides ==
    [][RefetchStep =>
         /\ reads'.poll = reads.poll
         /\ reads'.refetch = 1
         /\ systemSecret.state # "present"
              => /\ ret'.cfg = Nil
                 /\ ret'.err # Nil
                 /\ Deref(ret'.err).kind = "unable to get secret"
         /\ BothKeys(systemSecret, SystemAccessKey, SystemSecretKey)
              => /\ ret'.err = Nil
                 /\ ret'.cfg # Nil
                 /\ S3Of(ret').AccessKey = systemSecret.data[SystemAccessKey]
                 /\ S3Of(ret').SecretKey = systemSecret.data[SystemSecretKey]
         /\ (/\ systemSecret.state = "present"
             /\ ~BothKeys(systemSecret, SystemAccessKey, SystemSecretKey))
              => /\ ret'.cfg = Nil
                 /\ ret'.err # Nil
                 /\ Deref(ret'.err).kind = "does not contain required key"
                 /\ ~HasKey(systemSecret.data, Deref(ret'.err).key)]_vars

\* The one attempt of the poll found the system secret, the secret was
\* deleted, and the re-fetch has failed: no second attempt was made.
C14_Witness ==
    /\ Done
    /\ reads.poll = 1
    /\ reads.refetch = 1
    /\ systemSecret.state = "absent"
    /\ ret.cfg = Nil
    /\ ret.err = ErrGetSecret(installerConfigNamespace, cloudCredentialsName)

\* The decoded install descriptor has no AWS block.
NoAWSBlock == installConfig # Nil /\ Deref(installConfig).Platform.AWS = Nil

\* C15: a decoded install descriptor without an AWS block leaves the
\* region empty and is no error: GetAWSConfig goes on to the lookup of the
\* user-defined secret, every error it then returns is one of the
\* credential lookup, and with both keys in the user-defined secret it
\* succeeds; with an AWS block the region of a success is the block's.
C15_AbsentRegionNoError ==
    fn = "GetAWSConfig"
    => /\ NoAWSBlock
            => /\ cfg # Nil
               /\ Deref(cfg).Storage.S3.Region = ""
               /\ pc = "userSecret" \/ reads.user = 1
               /\ Succeeded => S3Of(ret).Region = ""
               /\ (Done /\ BothKeys(userSecret, UserAccessKey, UserSecretKey))
                    => Succeeded
               /\ Failed =>
                    Deref(ret.err).kind \in
                        {"api", "timed out waiting for the condition",
                         "unable to get secret", "does not contain required key"}
       /\ (Succeeded /\ ~NoAWSBlock)
            => S3Of(ret).Region = Deref(Deref(installConfig).Platform.AWS).Region

\* GetAWSConfig has succeeded on a descriptor without an AWS block, with an
\* empty region and the keys of the system secret.
C15_Witness ==
    /\ Succeeded
    /\ fn = "GetAWSConfig"
    /\ NoAWSBlock
    /\ S3Of(ret).Region = ""
    /\ S3Of(ret).AccessKey # ""
    /\ reads.refetch = 1

\* C16: every return of GetAWSConfig is a config and no error, or no config
\* and an error; every failure path (client, ConfigMap read or decoding,
\* refused user-defined secret, poll error or timeout, failed re-fetch,
\* missing key) returns an error; every config returned has type s3 and
\* empty Azure and GCS blocks.
C16_ConfigXorError ==
    (Done /\ fn = "GetAWSConfig")
    => /\ \/ ret.cfg # Nil /\ ret.err = Nil
          \/ ret.cfg = Nil /\ ret.err # Nil
       /\ reads.configMap = 0 => ret.err = ErrClient
       /\ (reads.configMap = 1 /\ InstallConfigUnreadable) => Failed
       /\ (reads.user = 1 /\ userSecret.state = "error") => Failed
       /\ (reads.poll > 0 /\ reads.refetch = 0) => Failed
       /\ (reads.refetch = 1 /\ systemSecret.state # "present") => Failed
       /\ (sec # Nil /\ LacksKey(Deref(sec))) => Failed
       /\ ret.cfg # Nil
            => /\ Deref(ret.cfg).Storage.Type = StorageTypeS3
               /\ Deref(ret.cfg).Storage.Azure = ZeroAzure
               /\ Deref(ret.cfg).Storage.GCS = ZeroGCS
               /\ Deref(ret.cfg).Storage.S3.Bucket = ""

\* The re-fetched system secret holds the access key and lacks the secret
\* key: GetAWSConfig has returned the error and no config.
C16_Witness ==
    /\ Failed
    /\ fn = "GetAWSConfig"
    /\ ret.cfg = Nil
    /\ reads.refetch = 1
    /\ sec # Nil
    /\ HasKey(Deref(sec).Data, SystemAccessKey)
    /\ ~HasKey(Deref(sec).Data, SystemSecretKey)

\* The attempts that fit within the ceiling at PollInterval spacing: at
\* 0, PollInterval, 2 * PollInterval, ... up to PollTimeout.
AttemptsWithinCeiling == PollTimeout \div PollInterval + 1

\* No more than one ConfigMap read, one user-secret read, n poll attempts
\* and one re-fetch.
ReadsBoundedBy(n) ==
    /\ reads.configMap <= 1
    /\ reads.user <= 1
    /\ reads.poll <= n
    /\ reads.refetch <= 1

\* C17 as stated: every invocation returns, whatever the system secret
\* does, after at most one ConfigMap read, one user-secret read, the poll
\* attempts that fit within the ceiling at 1-second spacing and one
\* re-fetch.
C17_TerminatesWithinCeilingAttempts ==
    /\ <>Done
    /\ []ReadsBoundedBy(AttemptsWithinCeiling)

\* C17 amended: the poll makes at most one attempt more than fit within
\* the ceiling at 1-second spacing: the one wait.PollImmediate makes when
\* its timer fires, after the tick due at the ceiling.
C17_Terminates ==
    /\ <>Done
    /\ []ReadsBoundedBy(AttemptsWithinCeiling + 1)

\* GetAWSConfig has returned after the greatest number of reads: one of the
\* ConfigMap, one of the user-defined secret, an attempt at every second
\* from 0 to the ceiling and the one of the timeout, which found the
\* secret, and the re-fetch.
C17_Witness ==
    /\ Done
    /\ reads.configMap = 1
    /\ reads.user = 1
    /\ reads.poll = AttemptsWithinCeiling + 1
    /\ reads.refetch = 1

\* Both invocations are calls of GetAWSConfig that have returned, each
\* having built its clients.
BothReturned ==
    /\ Done
    /\ other.pc = "done"
    /\ fn = "GetAWSConfig"
    /\ other.fn = "GetAWSConfig"
    /\ ret.err # ErrClient
    /\ other.ret.err # ErrClient

\* C13: no step of GetInstallConfig, GetAWSConfig or GetGCSConfig, of either
\* of two invocations interleaved in any way, changes the ConfigMap or a
\* secret; a step of one invocation leaves the locals of the other alone;
\* and two calls of GetAWSConfig against the cluster, which then does not
\* change, return the same config or the same error.
C13_ReadOnlyIndependent ==
    /\ [][cluster' = cluster]_vars
    /\ [][Step => other' = other]_vars
    /\ [](BothReturned => ret = other.ret)

\* Two interleaved calls of GetAWSConfig have both polled for the system
\* secret, which was there, re-fetched it and returned its keys.
C13_Witness ==
    /\ BothReturned
    /\ self = 2
    /\ ret.cfg # Nil
    /\ ret = other.ret
    /\ reads.poll = 1 /\ reads.refetch = 1
    /\ other.reads.poll = 1 /\ other.reads.refetch = 1
    /\ BothKeys(systemSecret, SystemAccessKey, SystemSecretKey)

====
